---- MODULE Spec2Model ----
(***************************************************************************)
(* Model of the request handlers of app/main.py (catalogo_repuestos): the  *)
(* tenant table (empresas), the product table (productos), the tenant      *)
(* directories under app/static/empresas, the process-wide                 *)
(* EMPRESA_ACTIVA_ID and the response of the last request. The variable up *)
(* holds the locals of an upload_excel request that runs row by row while  *)
(* other requests are served (SpecConc).                                   *)
(*                                                                         *)
(* Strings are sequences of one-character strings, so that strip(),        *)
(* lower(), re.sub() and ILIKE are computed, not assumed.                  *)
(*                                                                         *)
(* Messages are written without accents. Uploaded logos, banners and image *)
(* files are not part of the state; the directories that hold them are.    *)
(*                                                                         *)
(* Line 48 of main.py reads empresa.slug at import, where no empresa is     *)
(* bound; the handlers are modelled as they run once the module is loaded, *)
(* and a row of upload_excel raises NameError whether at line 330          *)
(* (IMAGES_PATH) or at line 333 (existe), with the same outcome.           *)
(*                                                                         *)
(* The database outlives the process: Init draws its content from the      *)
(* rows the schema of app/models.py admits (primary keys, the unique slug, *)
(* the foreign key of productos.empresa_id).                               *)
(***************************************************************************)
EXTENDS Integers, Sequences, FiniteSets, TLC

VARIABLES empresas, productos, nextEmpresaId, EMPRESA_ACTIVA_ID, fs, resp, pdf,
          up

vars == <<empresas, productos, nextEmpresaId, EMPRESA_ACTIVA_ID, fs, resp, pdf, up>>

(***************************************************************************)
(* Bounds                                                                  *)
(***************************************************************************)
\* highest tenant id the database sequence hands out in a run
MaxEmpresaId == 2
\* longest item list of a PDF request (two page breaks need 37 items)
MaxItems == 38
\* item lists up to this length are enumerated exhaustively
ShortItems == 2

(***************************************************************************)
(* Strings                                                                 *)
(***************************************************************************)
\* EMPRESA_ACTIVA_ID = None, and "no row" of a .first() query
None == 0

\* str.lower() on one character
LowerChar(c) ==
    CASE c = "A" -> "a"
      [] c = "B" -> "b"
      [] c = "C" -> "c"
      [] c = "E" -> "e"
      [] c = "I" -> "i"
      [] c = "O" -> "o"
      [] c = "P" -> "p"
      [] c = "R" -> "r"
      [] OTHER -> c

\* str.lower()
Lower(s) == [i \in 1..Len(s) |-> LowerChar(s[i])]

RECURSIVE LStrip(_)
LStrip(s) == IF s # <<>> /\ Head(s) = " " THEN LStrip(Tail(s)) ELSE s

RECURSIVE RStrip(_)
RStrip(s) ==
    IF s # <<>> /\ s[Len(s)] = " " THEN RStrip(SubSeq(s, 1, Len(s) - 1)) ELSE s

\* str.strip()
Strip(s) == RStrip(LStrip(s))

\* the characters of the class [a-z0-9\-]
SlugChars == {"a", "b", "c", "d", "e", "g", "i", "n", "o", "p", "r", "s",
              "1", "2", "7", "-"}

\* re.sub(r"[^a-z0-9\-]", "-", slug)
SubNonSlug(s) == [i \in 1..Len(s) |-> IF s[i] \in SlugChars THEN s[i] ELSE "-"]

\* re.sub(r"-+", "-", slug)
RECURSIVE SubDashes(_)
SubDashes(s) ==
    IF Len(s) < 2 THEN s
    ELSE IF s[1] = "-" /\ s[2] = "-" THEN SubDashes(Tail(s))
    ELSE <<s[1]>> \o SubDashes(Tail(s))

\* SQL LIKE of a lower-cased string against a lower-cased pattern:
\* % matches any run of characters, _ matches exactly one character
RECURSIVE Like(_, _)
Like(s, p) ==
    IF p = <<>> THEN s = <<>>
    ELSE IF Head(p) = "%"
        THEN Like(s, Tail(p)) \/ (s # <<>> /\ Like(Tail(s), p))
    ELSE IF s = <<>> THEN FALSE
    ELSE (Head(p) = "_" \/ Head(p) = Head(s)) /\ Like(Tail(s), Tail(p))

\* Producto.descripcion.ilike(f"%{q}%")
ILike(s, q) == Like(Lower(s), <<"%">> \o Lower(q) \o <<"%">>)

\* q in s, both lower-cased: plain substring containment
Contains(s, q) ==
    \E i \in 1..(Len(s) - Len(q) + 1) :
        SubSeq(Lower(s), i, i + Len(q) - 1) = Lower(q)

(***************************************************************************)
(* Data                                                                    *)
(***************************************************************************)
\* a directory name made of a tenant id: f"app/static/empresas/{empresa.id}"
IdStr(i) == <<CASE i = 1 -> "1" [] i = 2 -> "2" [] OTHER -> "7">>

\* rows the database may hold when the process starts
E1 == [id |-> 1, slug |-> <<"a">>]
E2 == [id |-> 2, slug |-> <<"b">>]

P1 == [id |-> 1, empresa_id |-> 1, codigo |-> <<"A", "1">>,
       descripcion |-> <<"A", "b">>, categoria |-> <<"x">>, activo |-> TRUE]
P2 == [id |-> 2, empresa_id |-> 1, codigo |-> <<"A", "2">>,
       descripcion |-> <<"b">>, categoria |-> <<>>, activo |-> FALSE]
P3 == [id |-> 3, empresa_id |-> 2, codigo |-> <<"A", "1">>,
       descripcion |-> <<"a">>, categoria |-> <<"x">>, activo |-> TRUE]

\* form and JSON inputs of the tenant-creation requests
Nombres == {<<" ">>, <<"N">>}
RawSlugs == {<<>>, <<"a">>, <<" ", "A", " ", "b">>}

\* inputs of the catalog request
CatSlugs == {<<"a">>, <<"b">>}
Queries == {<<>>, <<"B">>, <<"_">>}
Categorias == {<<>>, <<"x">>}

\* spreadsheet headers: text, or a number (pandas keeps it an int)
H(s) == [isStr |-> TRUE, s |-> s]
HInt == [isStr |-> FALSE, s |-> <<"7">>]
codigo_ == <<"c", "o", "d", "i", "g", "o">>
descripcion_ == <<"d", "e", "s", "c", "r", "i", "p", "c", "i", "o", "n">>
precio_ == <<"p", "r", "e", "c", "i", "o">>

FullColumns ==
    <<H(<<" ", "C", "o", "d", "i", "g", "o", " ">>), H(descripcion_),
      H(<<"P", "R", "E", "C", "I", "O">>)>>

ColumnLists ==
    { FullColumns,
      <<H(codigo_), H(descripcion_)>>,
      <<H(precio_), H(codigo_)>>,
      <<H(descripcion_), HInt>> }

\* a cell of the codigo column: text, or empty (pandas reads NaN)
Cell(s) == [nan |-> FALSE, s |-> s]
NaN == [nan |-> TRUE, s |-> <<>>]

SomeRows == <<Cell(<<" ">>), Cell(<<"A", "1">>), Cell(<<"A", "2">>)>>

RowLists == { <<>>, <<Cell(<<" ">>)>>, SomeRows, <<NaN>> }

\* the uploaded file: unreadable, or a sheet with headers and rows
BadFile == [parseable |-> FALSE, columns |-> <<>>, rows |-> <<>>]
Sheet(c, r) == [parseable |-> TRUE, columns |-> c, rows |-> r]
Files ==
    {BadFile} \cup
    {Sheet(FullColumns, r) : r \in RowLists} \cup
    {Sheet(c, SomeRows) : c \in ColumnLists}

\* the response of a request, with the inputs it answered
Resp0 ==
    [op |-> "", status |-> 0, msg |-> "", detail |-> <<>>, empresa |-> None,
     slug |-> <<>>, file |-> BadFile, q |-> <<>>, categoria |-> <<>>,
     result |-> {}, nuevos |-> 0, actualizados |-> 0]

(***************************************************************************)
(* Database and filesystem helpers                                         *)
(***************************************************************************)
\* db.query(models.Empresa).filter(models.Empresa.slug == slug).first()
EmpresaBySlug(slug) ==
    IF \E e \in empresas : e.slug = slug
    THEN (CHOOSE e \in empresas : e.slug = slug).id
    ELSE None

\* db.query(models.Empresa).filter(models.Empresa.id == empresa_id).first()
EmpresaById(id) == {e \in empresas : e.id = id}

get_empresa_activa ==
    IF empresas = {} THEN None
    ELSE (CHOOSE e \in empresas : \A o \in empresas : o.id <= e.id).id

\* db.add(empresa); db.commit(); db.refresh(empresa): the sequence hands out
\* the id, and the unique index on slug rejects a second row with the slug
InsertEmpresa(slug) ==
    /\ empresas' = empresas \cup {[id |-> nextEmpresaId, slug |-> slug]}
    /\ nextEmpresaId' = nextEmpresaId + 1

\* os.makedirs(path, exist_ok=True) / Path.mkdir(parents=True, exist_ok=True)
MkDir(f, name) == [f EXCEPT !.dirs = @ \cup {name}]
\* the productos directory of a tenant directory, with its parents
MkProductos(f, name) ==
    [f EXCEPT !.dirs = @ \cup {name}, !.productos = @ \cup {name}]

(***************************************************************************)
(* Tenant creation                                                         *)
(***************************************************************************)
\* Existe without the lookup: the handler goes on to the INSERT
Existe_NoCheck(slug) == FALSE

\* existe = db.query(models.Empresa).filter(models.Empresa.slug == slug).first()
Existe(slug) == EmpresaBySlug(slug) # None

\* slug of the first crear_empresa_panel: strip().lower() and the two re.sub
PanelSlug(slug) == SubDashes(SubNonSlug(Lower(Strip(slug))))

\* not nombre or not slug
Falta(nombre, slug) == nombre = <<>> \/ slug = <<>>

\* the rest of a creation request once the slug is free: the INSERT (the
\* unique index of empresas.slug raises IntegrityError on a taken slug, which
\* no handler catches), then the directories and the handler's answer
Crear(op, slug, status, msg, f, activa) ==
    IF \E e \in empresas : e.slug = slug
    THEN /\ resp' = [Resp0 EXCEPT !.op = op, !.slug = slug, !.status = 500,
                                  !.msg = "IntegrityError"]
         /\ UNCHANGED <<empresas, nextEmpresaId, EMPRESA_ACTIVA_ID, fs>>
    ELSE /\ nextEmpresaId <= MaxEmpresaId
         /\ InsertEmpresa(slug)
         /\ fs' = f
         /\ EMPRESA_ACTIVA_ID' = activa
         /\ resp' = [Resp0 EXCEPT !.op = op, !.slug = slug, !.status = status,
                                  !.msg = msg, !.empresa = nextEmpresaId]

\* a creation request that ends before the INSERT
Rechazar(op, slug, status, msg) ==
    /\ resp' = [Resp0 EXCEPT !.op = op, !.slug = slug, !.status = status,
                             !.msg = msg, !.empresa = EmpresaBySlug(slug)]
    /\ UNCHANGED <<empresas, nextEmpresaId, EMPRESA_ACTIVA_ID, fs>>

\* POST /empresa/crear_panel, first definition (async): no check of empty
\* fields; directories <slug>/ and <slug>/productos/
crear_empresa_panel_1 ==
    \E nombre \in Nombres, raw \in RawSlugs :
        LET slug == PanelSlug(raw) IN
        /\ IF Existe(slug)
           THEN Rechazar("crear_empresa_panel_1", slug, 303, "La empresa ya existe")
           ELSE Crear("crear_empresa_panel_1", slug, 303,
                      "Empresa creada correctamente",
                      MkProductos(fs, slug), EMPRESA_ACTIVA_ID)
        /\ UNCHANGED <<productos, pdf, up>>

\* POST /empresa/crear_panel, second definition: directory <id>/, and the
\* new tenant becomes EMPRESA_ACTIVA_ID
crear_empresa_panel_2 ==
    \E nombre \in Nombres, raw \in RawSlugs :
        LET slug == Lower(Strip(raw)) IN
        /\ IF Falta(Strip(nombre), slug)
           THEN Rechazar("crear_empresa_panel_2", slug, 303,
                         "Faltan datos obligatorios")
           ELSE IF Existe(slug)
           THEN Rechazar("crear_empresa_panel_2", slug, 303, "El slug ya existe")
           ELSE Crear("crear_empresa_panel_2", slug, 303,
                      "Empresa creada y activada",
                      MkDir(fs, IdStr(nextEmpresaId)), nextEmpresaId)
        /\ UNCHANGED <<productos, pdf, up>>

\* POST /empresa/crear_panel, third definition: directory <slug>/
crear_empresa_panel_3 ==
    \E nombre \in Nombres, raw \in RawSlugs :
        LET slug == Lower(Strip(raw)) IN
        /\ IF Falta(Strip(nombre), slug)
           THEN Rechazar("crear_empresa_panel_3", slug, 400,
                         "nombre y slug son obligatorios")
           ELSE IF Existe(slug)
           THEN Rechazar("crear_empresa_panel_3", slug, 400,
                         "Ya existe una empresa con ese slug")
           ELSE Crear("crear_empresa_panel_3", slug, 200, "ok",
                      MkDir(fs, slug), EMPRESA_ACTIVA_ID)
        /\ UNCHANGED <<productos, pdf, up>>

\* POST /empresa/crear: the slug is taken as sent; no directory
crear_empresa ==
    \E nombre \in Nombres, slug \in RawSlugs :
        /\ IF Falta(nombre, slug)
           THEN Rechazar("crear_empresa", slug, 200,
                         "nombre y slug son obligatorios")
           ELSE IF Existe(slug)
           THEN Rechazar("crear_empresa", slug, 200,
                         "Ya existe una empresa con ese slug")
           ELSE Crear("crear_empresa", slug, 200, "ok", fs, EMPRESA_ACTIVA_ID)
        /\ UNCHANGED <<productos, pdf, up>>

(***************************************************************************)
(* Tenant deletion                                                         *)
(***************************************************************************)
\* Cascade without the cascade: the tenant's product rows stay
Cascade_None(id) == productos

\* db.delete(empresa) with cascade="all, delete-orphan" on Empresa.productos
\* and ondelete="CASCADE" on productos.empresa_id
Cascade(id) == {p \in productos : p.empresa_id # id}

\* POST /empresa/borrar/{empresa_id}
borrar_empresa ==
    \E id \in 1..MaxEmpresaId :
        /\ IF EmpresaById(id) = {}
           THEN /\ resp' = [Resp0 EXCEPT !.op = "borrar_empresa", !.status = 200,
                                         !.msg = "Empresa no encontrada"]
                /\ UNCHANGED <<empresas, productos>>
           ELSE LET e == CHOOSE x \in EmpresaById(id) : TRUE IN
                /\ empresas' = empresas \ {e}
                /\ productos' = Cascade(id)
                /\ resp' = [Resp0 EXCEPT !.op = "borrar_empresa", !.status = 200,
                                         !.msg = "ok", !.empresa = id,
                                         !.slug = e.slug]
        /\ UNCHANGED <<nextEmpresaId, EMPRESA_ACTIVA_ID, fs, pdf, up>>

\* POST /delete_all_products
delete_all_products ==
    /\ productos' = {}
    /\ resp' = [Resp0 EXCEPT !.op = "delete_all_products", !.status = 303,
                             !.msg = "Productos eliminados."]
    /\ UNCHANGED <<empresas, nextEmpresaId, EMPRESA_ACTIVA_ID, fs, pdf, up>>

(***************************************************************************)
(* Excel import                                                            *)
(***************************************************************************)
\* df.columns = [c.strip().lower() for c in df.columns]: a header that is
\* no str has no strip() and raises AttributeError
ColumnsRaise(file) == \E i \in 1..Len(file.columns) : ~file.columns[i].isStr

Columns(file) ==
    {Lower(Strip(file.columns[i].s)) : i \in 1..Len(file.columns)}

\* required = ["codigo", "descripcion", "precio"]
required == <<codigo_, descripcion_, precio_>>

\* MissingColumn looking at the first two required columns only
MissingColumn_NoPrecio(cols) ==
    IF codigo_ \notin cols THEN codigo_
    ELSE IF descripcion_ \notin cols THEN descripcion_
    ELSE <<>>

\* for col in required: if col not in df.columns: the first such col,
\* <<>> when none is missing
MissingColumn(cols) ==
    IF \A i \in 1..Len(required) : required[i] \in cols THEN <<>>
    ELSE required[CHOOSE i \in 1..Len(required) :
                      /\ required[i] \notin cols
                      /\ \A j \in 1..(i - 1) : required[j] \in cols]

\* str(row.get("codigo", "")): an empty cell is NaN and prints as "nan"
Str(cell) == IF cell.nan THEN <<"n", "a", "n">> ELSE cell.s

\* the session and counters before the first row
Loop0 ==
    [exc |-> FALSE, ret |-> FALSE, committed |-> productos, pending |-> {},
     nuevos |-> 0, actualizados |-> 0]

\* Fila committing an insert of the row before line 333 raises
Fila_CommitEarly(st, cell) ==
    IF st.exc \/ st.ret THEN st
    ELSE IF Strip(Str(cell)) = <<>> THEN st
    ELSE IF get_empresa_activa = None THEN [st EXCEPT !.ret = TRUE]
    ELSE [st EXCEPT !.exc = TRUE,
                    !.committed = @ \cup
                        {[id |-> 9, empresa_id |-> get_empresa_activa,
                          codigo |-> Strip(Str(cell)), descripcion |-> <<>>,
                          categoria |-> <<>>, activo |-> TRUE]}]

\* one pass of the body of  for _, row in df.iterrows():  A blank code skips
\* the row. Otherwise the active tenant is looked up again, and then line 333
\* reads the name existe, which nothing in upload_excel or the module binds:
\* NameError, before the update and insert branches (lines 334-374) can run.
Fila(st, cell) ==
    IF st.exc \/ st.ret THEN st
    ELSE IF Strip(Str(cell)) = <<>> THEN st
    ELSE IF get_empresa_activa = None THEN [st EXCEPT !.ret = TRUE]
    ELSE [st EXCEPT !.exc = TRUE]

RECURSIVE Iterrows(_, _)
Iterrows(st, rows) ==
    IF rows = <<>> THEN st ELSE Iterrows(Fila(st, Head(rows)), Tail(rows))

\* the product table once the request is over: db.commit() after the loop
\* writes what the session queued; on return or exception get_db closes the
\* session and what was queued is dropped
SessionEnd(st) ==
    IF st.exc \/ st.ret THEN st.committed ELSE st.committed \cup st.pending

UploadResp(file, empresa, msg, detail) ==
    [Resp0 EXCEPT !.op = "upload_excel", !.status = 303, !.file = file,
                  !.empresa = empresa, !.msg = msg, !.detail = detail]

\* POST /upload_excel
upload_excel ==
    \E file \in Files :
        LET empresa == get_empresa_activa
            st == Iterrows(Loop0, file.rows)
        IN
        /\ IF empresa = None
           THEN /\ resp' = UploadResp(file, empresa,
                               "No hay empresa activa. Crea una empresa primero.", <<>>)
                /\ UNCHANGED productos
           ELSE IF ~file.parseable \/ ColumnsRaise(file)
           THEN /\ resp' = UploadResp(file, empresa,
                               "Error procesando el archivo.", <<>>)
                /\ UNCHANGED productos
           ELSE IF MissingColumn(Columns(file)) # <<>>
           THEN /\ resp' = UploadResp(file, empresa, "Falta columna obligatoria",
                               MissingColumn(Columns(file)))
                /\ UNCHANGED productos
           ELSE /\ productos' = SessionEnd(st)
                /\ resp' =
                     IF st.exc
                     THEN UploadResp(file, empresa,
                              "Error procesando el archivo.", <<>>)
                     ELSE IF st.ret
                     THEN UploadResp(file, empresa, "No hay empresa activa.", <<>>)
                     ELSE [UploadResp(file, empresa, "Excel procesado", <<>>)
                              EXCEPT !.nuevos = st.nuevos,
                                     !.actualizados = st.actualizados]
        /\ UNCHANGED <<empresas, nextEmpresaId, EMPRESA_ACTIVA_ID, fs, pdf, up>>

\* no upload_excel request running row by row
Up0 ==
    [pc |-> "idle", file |-> BadFile, i |-> 0, inicio |-> None, filas |-> {},
     st |-> [exc |-> FALSE, ret |-> FALSE, committed |-> {}, pending |-> {},
             nuevos |-> 0, actualizados |-> 0]]

(***************************************************************************)
(* Image archive                                                           *)
(***************************************************************************)
\* POST /upload_zip: the directory is made before the archive is opened
upload_zip ==
    \E zipOk \in BOOLEAN :
        LET empresa == get_empresa_activa IN
        /\ IF empresa = None
           THEN /\ resp' = [Resp0 EXCEPT !.op = "upload_zip", !.status = 303,
                                         !.msg = "No hay empresa activa."]
                /\ UNCHANGED fs
           ELSE LET e == CHOOSE x \in EmpresaById(empresa) : TRUE IN
                /\ fs' = MkProductos(fs, e.slug)
                /\ resp' = [Resp0 EXCEPT !.op = "upload_zip", !.status = 303,
                                         !.empresa = empresa, !.slug = e.slug,
                                         !.msg = IF zipOk
                                                 THEN "Imagenes cargadas correctamente."
                                                 ELSE "Error al procesar el ZIP."]
        /\ UNCHANGED <<empresas, productos, nextEmpresaId, EMPRESA_ACTIVA_ID, pdf, up>>

(***************************************************************************)
(* Catalog                                                                 *)
(***************************************************************************)
\* query_db: the tenant's rows, .ilike(f"%{q}%") if q, categoria == if categoria
CatalogoQuery(empresa, q, categoria) ==
    {p \in productos :
        /\ p.empresa_id = empresa
        /\ (q # <<>> => ILike(p.descripcion, q))
        /\ (categoria # <<>> => p.categoria = categoria)}

\* GET /catalogo/{slug}
catalogo ==
    \E slug \in CatSlugs, q \in Queries, categoria \in Categorias :
        LET empresa == EmpresaBySlug(slug) IN
        /\ resp' =
             IF empresa = None
             THEN [Resp0 EXCEPT !.op = "catalogo", !.status = 404, !.slug = slug,
                                !.q = q, !.categoria = categoria,
                                !.msg = "Empresa no encontrada"]
             ELSE [Resp0 EXCEPT !.op = "catalogo", !.status = 200, !.slug = slug,
                                !.q = q, !.categoria = categoria,
                                !.empresa = empresa, !.msg = "catalogo.html",
                                !.result = CatalogoQuery(empresa, q, categoria)]
        /\ UNCHANGED <<empresas, productos, nextEmpresaId, EMPRESA_ACTIVA_ID, fs, pdf, up>>

(***************************************************************************)
(* PDF of an order                                                         *)
(***************************************************************************)
\* Lengths are in hundredths of a point and money in cents, so that the
\* arithmetic of the handler is integer arithmetic.
\* width, height = A4: reportlab's A4 is 297 mm = 841.89 pt high
height == 84189

\* line items {precio, cantidad} of a request
K1 == [precio |-> 1000, cantidad |-> 3]
K2 == [precio |-> 99, cantidad |-> 1]
Kinds == {K1, K2}

Rep(k, n) == [j \in 1..n |-> k]
Alt(n) == [j \in 1..n |-> IF j % 2 = 1 THEN K1 ELSE K2]

\* every list of at most ShortItems items, and longer ones of each length
ItemLists ==
    UNION {[1..n -> Kinds] : n \in 0..ShortItems} \cup
    {Rep(k, n) : k \in Kinds, n \in (ShortItems + 1)..MaxItems} \cup
    {Alt(n) : n \in (ShortItems + 1)..MaxItems}

\* f"{total:.2f}" of an amount in cents: the units and the two decimals
Format2f(cents) == <<cents \div 100, cents % 100>>

\* no PDF request in progress
Pdf0 ==
    [pc |-> "idle", items |-> <<>>, i |-> 0, y |-> 0, total |-> 0, pages |-> 0,
     printed |-> <<0, 0>>]

\* PdfItem starting the total again on a new page
PdfItem_ResetOnPage(p) ==
    LET item == p.items[p.i + 1]
        y == p.y - 1800 - 2200
        subtotal == item.precio * item.cantidad
    IN [p EXCEPT !.i = @ + 1,
                 !.total = IF y < 6000 THEN 0 ELSE @ + subtotal,
                 !.y = IF y < 6000 THEN height - 4000 ELSE y,
                 !.pages = IF y < 6000 THEN @ + 1 ELSE @]

\* one pass of  for item in items:  two lines drawn, the subtotal added, and a
\* new page when the cursor has passed the bottom margin
PdfItem(p) ==
    LET item == p.items[p.i + 1]
        y == p.y - 1800 - 2200
        subtotal == item.precio * item.cantidad
    IN [p EXCEPT !.i = @ + 1,
                 !.total = @ + subtotal,
                 !.y = IF y < 6000 THEN height - 4000 ELSE y,
                 !.pages = IF y < 6000 THEN @ + 1 ELSE @]

\* the header: y = height - 40, the tenant name, y -= 40, total = 0
pdf_start ==
    /\ pdf.pc = "start"
    /\ pdf' = [pdf EXCEPT !.pc = "loop", !.y = height - 4000 - 4000,
                          !.total = 0, !.pages = 1, !.i = 0]
    /\ UNCHANGED <<empresas, productos, nextEmpresaId, EMPRESA_ACTIVA_ID, fs, resp, up>>

pdf_item ==
    /\ pdf.pc = "loop"
    /\ pdf.i < Len(pdf.items)
    /\ pdf' = PdfItem(pdf)
    /\ UNCHANGED <<empresas, productos, nextEmpresaId, EMPRESA_ACTIVA_ID, fs, resp, up>>

\* y -= 20 and the line f"TOTAL: ${total:.2f}"
pdf_end ==
    /\ pdf.pc = "loop"
    /\ pdf.i = Len(pdf.items)
    /\ pdf' = [pdf EXCEPT !.pc = "done", !.y = @ - 2000,
                          !.printed = Format2f(pdf.total)]
    /\ UNCHANGED <<empresas, productos, nextEmpresaId, EMPRESA_ACTIVA_ID, fs, resp, up>>

\* POST /pedido/pdf with a list of well-formed items
InitPdf ==
    /\ empresas = {}
    /\ productos = {}
    /\ nextEmpresaId = 1
    /\ fs = [dirs |-> {}, productos |-> {}]
    /\ EMPRESA_ACTIVA_ID = None
    /\ resp = Resp0
    /\ \E items \in ItemLists : pdf = [Pdf0 EXCEPT !.pc = "start", !.items = items]
    /\ up = Up0

NextPdf == pdf_start \/ pdf_item \/ pdf_end

SpecPdf == InitPdf /\ [][NextPdf]_vars

(***************************************************************************)
(* Specification of the request handlers                                   *)
(***************************************************************************)
\* the state when the process starts: EMPRESA_ACTIVA_ID = None, and a
\* database that is empty or holds tenants a and b with any of their products
Init ==
    /\ \/ /\ empresas = {}
          /\ productos = {}
          /\ nextEmpresaId = 1
          /\ fs = [dirs |-> {}, productos |-> {}]
       \/ /\ empresas = {E1, E2}
          /\ productos \in SUBSET {P1, P2, P3}
          /\ nextEmpresaId = 3
          /\ fs = [dirs |-> {E1.slug, E2.slug},
                   productos |-> {E1.slug, E2.slug}]
    /\ EMPRESA_ACTIVA_ID = None
    /\ resp = Resp0
    /\ pdf = Pdf0
    /\ up = Up0

Next ==
    \/ crear_empresa_panel_1
    \/ crear_empresa_panel_2
    \/ crear_empresa_panel_3
    \/ crear_empresa
    \/ borrar_empresa
    \/ delete_all_products
    \/ upload_excel
    \/ upload_zip
    \/ catalogo

Spec == Init /\ [][Next]_vars

(***************************************************************************)
(* upload_excel row by row, among other requests                           *)
(***************************************************************************)
\* The handler is a def: it runs in a worker thread while other requests
\* create and delete tenants. Its reads of the tenant table are line 300 and,
\* for every row with a non-blank code, line 322; each is one step here.

\* lines 299-315: the tenant bound at line 300, then the sheet and its
\* columns; the request ends here or enters the loop
upload_excel_inicio ==
    \E file \in Files :
        LET empresa == get_empresa_activa IN
        /\ up.pc # "filas"
        /\ IF empresa = None
           THEN /\ resp' = UploadResp(file, empresa,
                               "No hay empresa activa. Crea una empresa primero.", <<>>)
                /\ up' = [Up0 EXCEPT !.pc = "fin", !.file = file]
           ELSE IF ~file.parseable \/ ColumnsRaise(file)
           THEN /\ resp' = UploadResp(file, empresa,
                               "Error procesando el archivo.", <<>>)
                /\ up' = [Up0 EXCEPT !.pc = "fin", !.file = file,
                                     !.inicio = empresa]
           ELSE IF MissingColumn(Columns(file)) # <<>>
           THEN /\ resp' = UploadResp(file, empresa, "Falta columna obligatoria",
                               MissingColumn(Columns(file)))
                /\ up' = [Up0 EXCEPT !.pc = "fin", !.file = file,
                                     !.inicio = empresa]
           ELSE /\ up' = [Up0 EXCEPT !.pc = "filas", !.file = file,
                                     !.inicio = empresa, !.st = Loop0]
                /\ UNCHANGED resp
        /\ UNCHANGED <<empresas, productos, nextEmpresaId, EMPRESA_ACTIVA_ID, fs, pdf>>

\* lines 317-374 for the next row: a row with a non-blank code binds empresa
\* again (line 322), and the request ends when the row returns or raises
upload_excel_fila ==
    /\ up.pc = "filas"
    /\ up.i < Len(up.file.rows)
    /\ LET cell == up.file.rows[up.i + 1]
           st == Fila(up.st, cell)
           filas == IF Strip(Str(cell)) = <<>> \/ get_empresa_activa = None
                    THEN up.filas
                    ELSE up.filas \cup {get_empresa_activa}
       IN
       /\ up' = [up EXCEPT !.i = @ + 1, !.st = st, !.filas = filas,
                           !.pc = IF st.exc \/ st.ret THEN "fin" ELSE "filas"]
       /\ resp' =
            IF st.exc
            THEN UploadResp(up.file, get_empresa_activa,
                            "Error procesando el archivo.", <<>>)
            ELSE IF st.ret
            THEN UploadResp(up.file, None, "No hay empresa activa.", <<>>)
            ELSE resp
    /\ UNCHANGED <<empresas, productos, nextEmpresaId, EMPRESA_ACTIVA_ID, fs, pdf>>

\* lines 376-379: db.commit() writes what the session queued
upload_excel_commit ==
    /\ up.pc = "filas"
    /\ up.i = Len(up.file.rows)
    /\ productos' = productos \cup up.st.pending
    /\ up' = [up EXCEPT !.pc = "fin"]
    /\ resp' = [UploadResp(up.file, up.inicio, "Excel procesado", <<>>)
                   EXCEPT !.nuevos = up.st.nuevos,
                          !.actualizados = up.st.actualizados]
    /\ UNCHANGED <<empresas, nextEmpresaId, EMPRESA_ACTIVA_ID, fs, pdf>>

NextConc ==
    \/ upload_excel_inicio
    \/ upload_excel_fila
    \/ upload_excel_commit
    \/ crear_empresa
    \/ crear_empresa_panel_2
    \/ borrar_empresa

SpecConc == Init /\ [][NextConc]_vars

(***************************************************************************)
(* Properties                                                              *)
(***************************************************************************)
\* the codes of the rows whose codigo cell holds more than white space
NonBlankCodes(file) ==
    {Strip(file.rows[i].s) : i \in {j \in 1..Len(file.rows) : ~file.rows[j].nan}}
        \ {<<>>}

\* a readable sheet, all headers text, with codigo, descripcion and precio
HasRequired(file) ==
    /\ file.parseable
    /\ ~ColumnsRaise(file)
    /\ \A i \in 1..Len(required) : required[i] \in Columns(file)

\* a readable sheet without one of codigo, descripcion and precio
LacksRequired(file) ==
    /\ file.parseable
    /\ \E i \in 1..Len(required) : required[i] \notin Columns(file)

\* C1: after upload_excel of a sheet with the required columns, each row with
\* a non-blank code corresponds to exactly one product row with that code in
\* the target tenant (and a second upload reports 0 new / N updated).
C1_OneRowPerCode ==
    (resp.op = "upload_excel" /\ resp.empresa # None /\ HasRequired(resp.file))
    => \A c \in NonBlankCodes(resp.file) :
          Cardinality({p \in productos :
                          p.codigo = c /\ p.empresa_id = resp.empresa}) = 1

\* C2: once a tenant has been selected as active, upload_excel works on that
\* tenant, whatever the order in which the tenants were created.
C2_ImportTargetsSelected ==
    (/\ resp.op = "upload_excel"
     /\ EMPRESA_ACTIVA_ID # None
     /\ EmpresaById(EMPRESA_ACTIVA_ID) # {})
    => resp.empresa = EMPRESA_ACTIVA_ID

\* C3 as stated: upload_excel of a sheet that lacks a required column leaves
\* the product rows as they were and answers with an error naming a missing
\* column.
C3_Original ==
    [][(resp'.op = "upload_excel" /\ LacksRequired(resp'.file))
       => /\ productos' = productos
          /\ resp'.msg = "Falta columna obligatoria"
          /\ resp'.detail \in {required[i] : i \in 1..Len(required)}
          /\ resp'.detail \notin Columns(resp'.file)]_vars

\* the first of codigo, descripcion, precio that cols lacks
FirstMissing(cols) ==
    IF codigo_ \notin cols THEN codigo_
    ELSE IF descripcion_ \notin cols THEN descripcion_
    ELSE precio_

\* C3: when a tenant exists and the sheet is readable with text headers only,
\* upload_excel of a sheet that lacks a required column leaves the product
\* rows as they were and answers with the error naming the first missing
\* column in the order codigo, descripcion, precio.
C3_MissingColumn ==
    [][(/\ resp'.op = "upload_excel"
        /\ empresas # {}
        /\ ~ColumnsRaise(resp'.file)
        /\ LacksRequired(resp'.file))
       => /\ productos' = productos
          /\ resp'.msg = "Falta columna obligatoria"
          /\ resp'.detail = FirstMissing(Columns(resp'.file))]_vars

C3_Witness ==
    /\ resp.op = "upload_excel"
    /\ resp.msg = "Falta columna obligatoria"
    /\ resp.detail = precio_
    /\ productos # {}

\* C4: after borrar_empresa succeeds, no product row of the tenant remains,
\* its image directory no longer exists and its slug is unknown to catalogo.
C4_BorrarEmpresa ==
    (resp.op = "borrar_empresa" /\ resp.msg = "ok")
    => /\ \A p \in productos : p.empresa_id # resp.empresa
       /\ resp.slug \notin fs.productos
       /\ EmpresaBySlug(resp.slug) = None

\* C5: catalogo returns exactly the tenant's products that are active, whose
\* description contains q (case-insensitively) when q is given and whose
\* category equals categoria when categoria is given.
C5_CatalogoExact ==
    (resp.op = "catalogo" /\ resp.status = 200)
    => resp.result =
         {p \in productos :
             /\ p.empresa_id = resp.empresa
             /\ p.activo
             /\ (resp.q # <<>> => Contains(p.descripcion, resp.q))
             /\ (resp.categoria # <<>> => p.categoria = resp.categoria)}

\* C6: an exception at a row of upload_excel ends the request with the
\* generic failure message, and the product table after the request equals
\* the product table before it.
C6_ImportAllOrNothing ==
    [][(resp'.op = "upload_excel" /\ empresas # {} /\ HasRequired(resp'.file))
       => /\ Iterrows(Loop0, resp'.file.rows).exc
               => resp'.msg = "Error procesando el archivo."
          /\ resp'.msg = "Error procesando el archivo."
               => productos' = productos]_vars

C6_Witness ==
    /\ resp.op = "upload_excel"
    /\ resp.msg = "Error procesando el archivo."
    /\ HasRequired(resp.file)
    /\ resp.file.rows = SomeRows
    /\ productos # {}

CreateOps ==
    {"crear_empresa_panel_1", "crear_empresa_panel_2", "crear_empresa_panel_3",
     "crear_empresa"}

\* the error answers of the creation handlers
CreateErrors ==
    {"La empresa ya existe", "El slug ya existe",
     "Ya existe una empresa con ese slug", "Faltan datos obligatorios",
     "nombre y slug son obligatorios"}

UniqueSlugs == \A e1, e2 \in empresas : e1.slug = e2.slug => e1 = e2

\* C7: no two tenant rows ever have the same slug, and a creation request
\* whose slug (as the handler would store it) already exists answers with an
\* error and leaves the tenant table, the product table and
\* EMPRESA_ACTIVA_ID unchanged.
C7_UniqueSlug ==
    /\ UniqueSlugs
    /\ [][/\ UniqueSlugs'
          /\ (resp'.op \in CreateOps
              /\ \E e \in empresas : e.slug = resp'.slug)
             => /\ resp'.msg \in CreateErrors
                /\ empresas' = empresas
                /\ productos' = productos
                /\ EMPRESA_ACTIVA_ID' = EMPRESA_ACTIVA_ID]_vars

C7_Witness ==
    /\ resp.op \in CreateOps
    /\ resp.msg \in {"La empresa ya existe", "El slug ya existe",
                     "Ya existe una empresa con ese slug"}
    /\ Cardinality(empresas) >= 2
    /\ EMPRESA_ACTIVA_ID # None

\* C8: every product row's empresa_id is the id of exactly one tenant row.
C8_NoOrphan ==
    \A p \in productos :
        Cardinality({e \in empresas : e.id = p.empresa_id}) = 1

C8_Witness ==
    /\ resp.op = "borrar_empresa"
    /\ resp.msg = "ok"
    /\ resp.empresa = 1
    /\ productos = {P3}

RECURSIVE SumItems(_)
SumItems(items) ==
    IF items = <<>> THEN 0
    ELSE Head(items).precio * Head(items).cantidad + SumItems(Tail(items))

\* C10: the total generar_pdf prints is the sum of precio * cantidad over the
\* items, whatever the number of page breaks: 30.00 for the single item
\* (precio 10, cantidad 3) and 0.00 for the empty list.
C10_PdfTotal ==
    pdf.pc = "done"
    => /\ pdf.printed = Format2f(SumItems(pdf.items))
       /\ pdf.items = <<K1>> => pdf.printed = <<30, 0>>
       /\ pdf.items = <<>> => pdf.printed = <<0, 0>>

C10_Witness ==
    /\ pdf.pc = "done"
    /\ pdf.pages >= 3
    /\ pdf.items = Alt(Len(pdf.items))
    /\ pdf.printed = Format2f(SumItems(pdf.items))
\* C11: every row of one upload_excel request works on the same tenant, the
\* one that was active when the request started, also when tenants are
\* created or deleted while the request goes through the rows.
C11_SameTenant ==
    up.pc # "idle" => \A e \in up.filas : e = up.inicio

====
